---- MODULE Spec2Model ----
(***************************************************************************)
(* The video-generation pipeline of the learning platform:                 *)
(* VideoGeneratorService (api/services/video_generator.py) and its two     *)
(* callers, the Celery task generate_video_task (api/tasks.py) and the     *)
(* background-thread fallback of GenerateVideoView.post (api/views.py).    *)
(* One job is followed from the creation of its VideoTask record to the    *)
(* end of its caller.  External backends (text, image, text-to-speech,     *)
(* video encoding, filesystem) answer nondeterministically.                *)
(***************************************************************************)
EXTENDS Integers, Sequences, FiniteSets, TLC

\* Largest number of scenes a generated script holds in the model.
MaxScenes == 2

\* Number of jobs that run concurrently in the model of several jobs.
MaxJobs == 2

----------------------------------------------------------------------------
\* Data

\* Optional values (None | value) are sequences of length at most one.
None == << >>
Some(v) == << v >>

\* A scene of the script: narration text ("" when empty or absent) and the
\* image prompt ("" when absent).  Titles and bullets do not steer control flow.
Scene == [narration : {"", "text"}, image_prompt : {"", "prompt"}]

SceneLists == UNION { [1..n -> Scene] : n \in 0..MaxScenes }

\* What json.loads can give back.  For an object: its keys and, when the key
\* "scenes" is present, the scene list.  Kind "value" is a non-empty JSON
\* value that is not an object (an array, a string, a number): it is truthy
\* and has no method get.
ScriptObjects ==
    { [kind |-> "obj", keys |-> {}, scenes |-> << >>],
      [kind |-> "obj", keys |-> {"other"}, scenes |-> << >>],
      [kind |-> "value", keys |-> {}, scenes |-> << >>] }
    \cup { [kind |-> "obj", keys |-> {"scenes"}, scenes |-> s] : s \in SceneLists }

NullScript == [kind |-> "null", keys |-> {}, scenes |-> << >>]

\* Answers of the text backend to generate_text(prompt, json_mode=True).
TextResponses ==
    { [kind |-> "raise", value |-> NullScript],
      [kind |-> "malformed", value |-> NullScript] }
    \cup { [kind |-> "json", value |-> s] : s \in ScriptObjects }

ImageOutcomes == {"image", "none", "raise"}
TtsOutcomes   == {"ok", "empty", "missing", "raise", "partial", "noimport"}
ClipOutcomes  == {"ok", "nofile", "raise"}
MergeOutcomes == {"ok", "nofile", "raise"}

\* Exceptions: a reason and, for the no-clips error, the failure records its
\* message prints.
NoException == [reason |-> "", failed |-> << >>]
Exception(reason) == [reason |-> reason, failed |-> << >>]

\* str(exc): the message of an exception, with the failure list it embeds.
Str(e) == [text |-> e.reason, failed |-> e.failed]
EmptyText == [text |-> "", failed |-> << >>]

\* Progress messages: the text and the scene counter it embeds.
Progress(msg, k, n) == [msg |-> msg, i |-> k, n |-> n]

\* models.VideoTask with its field defaults, as objects.create leaves it.
NewVideoTask ==
    [ status           |-> "pending",
      progress_message |-> Progress("", 0, 0),
      script_data      |-> NullScript,
      video_file       |-> None,
      duration_seconds |-> None,
      error_message    |-> EmptyText,
      completed_at     |-> None ]

NoOutcome == [img |-> "na", audio |-> "na", clip |-> "na"]

----------------------------------------------------------------------------
VARIABLES
    caller,             \* who runs the pipeline: "none", "celery", "thread", "view"
    pc,                 \* position of the job's worker
    rec,                \* the VideoTask row in the record store
    obj,                \* the caller's in-memory VideoTask instance (video_task / vt)
    script_data,        \* run's local script_data
    i,                  \* run's loop index (1-based scene number)
    generated_img_path, \* run's local: None or Some(scene number)
    slide_path,         \* run's local: None or Some(scene number)
    audio_path,         \* run's local: None or Some(scene number)
    video_clips,        \* run's list of clip paths, each named by its scene number
    failed_scenes,      \* run's list of (scene number, reason)
    files,              \* the files of the job's workspace
    calls,              \* how often each stage was invoked, per scene number
    outcome,            \* per scene, what each backend stage did
    merge_input,        \* the list handed to merge_scenes, None before
    result,             \* how run ended: kind "none", "returned", "raised"
    exc,                \* the exception the caller's handler received
    duration_probe,     \* how the caller's duration probe ended
    merge_outcome,      \* what the encoder did in merge_scenes, "none" before
    event_loop,         \* per scene, generate_audio's event loop: "none", "open", "closed"
    writes              \* how often each file of the workspace was written

pipelineVars == << caller, pc, rec, obj, script_data, i, generated_img_path, slide_path,
           audio_path, video_clips, failed_scenes, files, calls, outcome,
           merge_input, result, exc, duration_probe, merge_outcome, event_loop,
           writes >>

\* Several jobs side by side: one worker per job, the table of VideoTask
\* rows, the workspace directories and the stored result files.
VARIABLES
    workers,            \* per job, its worker: position, caller, service, instance
    rows,               \* the video_tasks table: primary key -> row
    disk,               \* directory -> artifact kind -> job whose service wrote it (0: absent)
    stored              \* stored result file name -> job whose final video it holds (0: absent)

jobsVars == << workers, rows, disk, stored >>

\* The other services of the repository, each a component of its own.
VARIABLES
    options,            \* the options list handed to Question(...), empty before
    question            \* how constructing the Question ended, and its options field

questionVars == << options, question >>

\* token_tracker.py: the module globals and the threads that call into it.
VARIABLES
    lock,               \* _lock: 0 when free, else the thread holding it
    session_input,      \* _session_input
    session_output,     \* _session_output
    call_count,         \* _call_count
    tracker,            \* per thread: position, arguments and locals of its call
    completed           \* the record() calls that returned: token sums and counts

trackerVars == << lock, session_input, session_output, call_count, tracker, completed >>

\* syllabus_service.py: one call of SyllabusGenerator.generate_syllabus.
VARIABLES
    max_attempts,       \* the argument max_attempts
    attempt,            \* the loop variable, 0 before the loop
    syllabus,           \* the local syllabus: None, or Some(attempt that generated it)
    attempt_history,    \* the local list attempt_history
    invoked,            \* how often each chain was invoked, and how often a review came back
    syllabus_pc,        \* position in generate_syllabus
    returned            \* what generate_syllabus returned or raised

syllabusVars == << max_attempts, attempt, syllabus, attempt_history, invoked,
                   syllabus_pc, returned >>

\* ai_client.py: the Stable Diffusion pipeline shared by the threads of a process.
VARIABLES
    sd_pipeline,        \* _sd_pipeline: 0 for None, else the pipeline object (numbered by load)
    loaded,             \* how many pipeline objects from_pretrained has built
    imaging             \* per thread: position in _get_sd_pipeline, local pipe, object received

imagingVars == << sd_pipeline, loaded, imaging >>

componentVars == << questionVars, trackerVars, syllabusVars, imagingVars >>

vars == << pipelineVars, jobsVars, componentVars >>

runLocals == << script_data, i, generated_img_path, slide_path, audio_path,
                video_clips, failed_scenes >>

\* The workspace: scripts/script.json, scenes/scene_<k>_raw.png and
\* scene_<k>.png, audio/scene_<k>.mp3, video/scene_<k>.mp4 and
\* video/final_video.mp4 (job-level files have number 0).  A file is "absent"
\* or has a content tag.
FileKinds == {"script", "raw", "slide", "audio", "clip", "final"}

NoFiles == [kind \in FileKinds |-> [k \in 0..MaxScenes |-> "absent"]]

WriteFile(fs, kind, k, attr) == [fs EXCEPT ![kind][k] = attr]

\* Every write of a file is counted.
NoWrites == [kind \in FileKinds |-> [k \in 0..MaxScenes |-> 0]]

LogWrite(log, kind, k) == [log EXCEPT ![kind][k] = @ + 1]

Exists(kind, k) == files[kind][k] # "absent"

\* The stages whose invocations are counted, per scene number (0: job level).
Stages == {"text", "progress", "image", "slide", "audio", "clip", "merge"}

NoCalls == [stage \in Stages |-> [k \in 0..MaxScenes |-> 0]]

LogCall(log, stage, k) == [log EXCEPT ![stage][k] = @ + 1]

\* The jobs, named by their primary keys (distinct UUIDs in the code).
Jobs == 1..MaxJobs

\* Directories under MEDIA_ROOT/videos: one per job id, and 0 for the parent
\* directory itself.
Directories == 0..MaxJobs

ArtifactKinds == {"script", "clip", "final"}

\* A worker before the view dispatched its job.
NewWorker ==
    [ pc |-> "created", caller |-> "none", task_id |-> 0, vt |-> NewVideoTask,
      exc |-> NoException, script |-> "na", clips |-> "na", merge |-> "na" ]

InitJobs ==
    /\ workers = [j \in Jobs |-> NewWorker]
    /\ rows = [j \in Jobs |-> NewVideoTask]
    /\ disk = [d \in Directories |-> [kind \in ArtifactKinds |-> 0]]
    /\ stored = [j \in Jobs |-> 0]

\* No Question has been constructed yet.
InitQuestion ==
    /\ options = << >>
    /\ question = [kind |-> "none", options |-> << >>]

MaxThreads == 2
MaxCalls == 3

Threads == 1..MaxThreads

\* A thread outside the module: no call in progress.
IdleThread ==
    [ pc |-> "idle", prompt_tokens |-> 0, completion_tokens |-> 0, tmp |-> 0,
      totals |-> << >> ]

\* The module as imported: lock free, counters 0 (token_tracker.py 34-37).
InitTracker ==
    /\ lock = 0
    /\ session_input = 0
    /\ session_output = 0
    /\ call_count = 0
    /\ tracker = [t \in Threads |-> IdleThread]
    /\ completed = [input |-> 0, output |-> 0, counted |-> 0, skipped |-> 0, totals |-> 0]

NotReturned == [kind |-> "none", syllabus |-> None, review |-> "none", history |-> << >>]

\* generate_syllabus has not been called.
InitSyllabus ==
    /\ max_attempts = 0
    /\ attempt = 0
    /\ syllabus = None
    /\ attempt_history = << >>
    /\ invoked = [generator |-> 0, reviewer |-> 0, reviewed |-> 0]
    /\ syllabus_pc = "idle"
    /\ returned = NotReturned

\* A thread that is not inside _get_sd_pipeline.
OutsideGetPipeline == [pc |-> "idle", pipe |-> 0, received |-> 0, calls |-> 0]

\* The module as imported: _sd_pipeline = None (ai_client.py 154).
InitImaging ==
    /\ sd_pipeline = 0
    /\ loaded = 0
    /\ imaging = [t \in Threads |-> OutsideGetPipeline]

InitComponents ==
    /\ InitQuestion
    /\ InitTracker
    /\ InitSyllabus
    /\ InitImaging

Init ==
    /\ InitJobs
    /\ InitComponents
    /\ caller = "none"
    /\ pc = "created"
    /\ rec = NewVideoTask
    /\ obj = NewVideoTask
    /\ script_data = NullScript
    /\ i = 0
    /\ generated_img_path = None
    /\ slide_path = None
    /\ audio_path = None
    /\ video_clips = << >>
    /\ failed_scenes = << >>
    /\ files = NoFiles
    /\ calls = NoCalls
    /\ outcome = [k \in 1..MaxScenes |-> NoOutcome]
    /\ merge_input = None
    /\ result = [kind |-> "none", value |-> "", error |-> NoException]
    /\ exc = NoException
    /\ duration_probe = "none"
    /\ merge_outcome = "none"
    /\ event_loop = [k \in 1..MaxScenes |-> "none"]
    /\ writes = NoWrites

----------------------------------------------------------------------------
\* VideoGeneratorService._update_task: a partial update of the row.
UpdateTask(row, fields) ==
    [f \in DOMAIN row |-> IF f \in DOMAIN fields THEN fields[f] ELSE row[f]]

\* run raises: the exception leaves run and reaches the caller's handler.
Raise(e) ==
    /\ result' = [kind |-> "raised", value |-> "", error |-> e]
    /\ exc' = e
    /\ pc' = "except"

\* GenerateVideoView.post: the job is handed to the Celery task (delay
\* succeeded) or, with Celery disabled or unreachable, to the fallback thread.
Dispatch ==
    /\ pc = "created"
    /\ \E c \in {"celery", "thread"} : caller' = c
    /\ pc' = "load"
    /\ UNCHANGED << rec, obj, runLocals, files, calls, outcome, merge_input,
                    result, exc, duration_probe >>
    /\ UNCHANGED << merge_outcome, event_loop, writes >>
    /\ UNCHANGED << jobsVars, componentVars >>

\* GenerateVideoView.post: the fallback could not be started (import, lookup
\* or thread start raised); the view marks its own instance failed and saves it.
FallbackStartFails ==
    /\ pc = "created"
    /\ caller' = "view"
    /\ obj' = [obj EXCEPT !.status = "failed",
                          !.progress_message = Progress("Failed to start", 0, 0)]
    /\ rec' = obj'
    /\ pc' = "done"
    /\ UNCHANGED << runLocals, files, calls, outcome, merge_input, result, exc,
                    duration_probe >>
    /\ UNCHANGED << merge_outcome, event_loop, writes >>
    /\ UNCHANGED << jobsVars, componentVars >>

\* VideoTask.objects.get(pk=task_id): the caller loads its instance.
LoadTask ==
    /\ pc = "load"
    /\ obj' = rec
    /\ pc' = "construct"
    /\ UNCHANGED << caller, rec, runLocals, files, calls, outcome, merge_input,
                    result, exc, duration_probe >>
    /\ UNCHANGED << merge_outcome, event_loop, writes >>
    /\ UNCHANGED << jobsVars, componentVars >>

\* VideoGeneratorService.__init__: os.makedirs of the four directories; a
\* filesystem error propagates to the caller's handler.
Construct ==
    /\ pc = "construct"
    /\ \E ok \in BOOLEAN :
          IF ok
          THEN /\ pc' = "run"
               /\ exc' = exc
          ELSE /\ pc' = "except"
               /\ exc' = Exception("makedirs failed")
    /\ UNCHANGED << caller, rec, obj, runLocals, files, calls, outcome,
                    merge_input, result, duration_probe >>
    /\ UNCHANGED << merge_outcome, event_loop, writes >>
    /\ UNCHANGED << jobsVars, componentVars >>

\* run, first statement: the row is marked processing.
RunStart ==
    /\ pc = "run"
    /\ rec' = UpdateTask(rec, [status |-> "processing",
                               progress_message |-> Progress("Generating script...", 0, 0)])
    /\ pc' = "script"
    /\ UNCHANGED << caller, obj, runLocals, files, calls, outcome, merge_input,
                    result, exc, duration_probe >>
    /\ UNCHANGED << merge_outcome, event_loop, writes >>
    /\ UNCHANGED << jobsVars, componentVars >>

\* generate_script: the parsed object, or null on a backend error or on text
\* that is not JSON.
GenerateScriptResult(resp) ==
    IF resp.kind = "json" THEN resp.value ELSE NullScript

\* script_data.get("scenes", [])
ScenesOf(s) == IF "scenes" \in s.keys THEN s.scenes ELSE << >>

\* Python truth value of script_data: null and {} are falsy.
Truthy(s) == (s.kind = "obj" /\ s.keys # {}) \/ s.kind = "value"

\* generate_script that opens script.json before it parses the response.
ScriptFileWritten_BeforeParse(resp) == resp.kind \in {"json", "malformed"}

\* generate_script writes script.json after json.loads succeeded, and not
\* when the backend raised or the text did not parse.
ScriptFileWritten(resp) == resp.kind = "json"

GenerateScript ==
    /\ pc = "script"
    /\ \E resp \in TextResponses :
          /\ script_data' = GenerateScriptResult(resp)
          /\ files' = IF ScriptFileWritten(resp)
                      THEN WriteFile(files, "script", 0, "data")
                      ELSE files
          /\ writes' = IF ScriptFileWritten(resp)
                       THEN LogWrite(writes, "script", 0)
                       ELSE writes
    /\ calls' = LogCall(calls, "text", 0)
    /\ pc' = "check_script"
    /\ UNCHANGED << caller, rec, obj, i, generated_img_path, slide_path,
                    audio_path, video_clips, failed_scenes, outcome, merge_input,
                    result, exc, duration_probe, merge_outcome, event_loop >>
    /\ UNCHANGED << jobsVars, componentVars >>

\* run, lines 349-363: the two fatal script checks, then the script update.
\* script_data.get on a value that is not an object raises AttributeError.
CheckScript ==
    /\ pc = "check_script"
    /\ IF ~Truthy(script_data)
       THEN /\ Raise(Exception("Failed to generate script from Ollama."))
            /\ UNCHANGED << rec, i >>
       ELSE IF script_data.kind # "obj"
       THEN /\ Raise(Exception("object has no attribute 'get'"))
            /\ UNCHANGED << rec, i >>
       ELSE IF ScenesOf(script_data) = << >>
       THEN /\ Raise(Exception("Script contains no scenes."))
            /\ UNCHANGED << rec, i >>
       ELSE /\ rec' = UpdateTask(rec,
                        [script_data |-> script_data,
                         progress_message |->
                             Progress("Script ready", 0, Len(ScenesOf(script_data)))])
            /\ i' = 1
            /\ pc' = "scene"
            /\ UNCHANGED << result, exc >>
    /\ UNCHANGED << caller, obj, script_data, generated_img_path, slide_path,
                    audio_path, video_clips, failed_scenes, files, calls, outcome,
                    merge_input, duration_probe >>
    /\ UNCHANGED << merge_outcome, event_loop, writes >>
    /\ UNCHANGED << jobsVars, componentVars >>

----------------------------------------------------------------------------
\* The per-scene loop of run

NumScenes == Len(ScenesOf(script_data))
CurrentScene == ScenesOf(script_data)[i]

\* End of one iteration of "for i, scene in enumerate(scenes, 1)".
NextIteration ==
    /\ i' = i + 1
    /\ pc' = IF i < NumScenes THEN "scene" ELSE "after_loop"

\* Loop head: the progress update "Processing scene i/N".
SceneBegin ==
    /\ pc = "scene"
    /\ rec' = UpdateTask(rec, [progress_message |->
                                 Progress("Processing scene", i, NumScenes)])
    /\ calls' = LogCall(calls, "progress", i)
    /\ pc' = "image"
    /\ UNCHANGED << caller, obj, runLocals, files, outcome, merge_input, result,
                    exc, duration_probe >>
    /\ UNCHANGED << merge_outcome, event_loop, writes >>
    /\ UNCHANGED << jobsVars, componentVars >>

\* generate_image without its try/except: a backend exception leaves run.
GenerateImageResult_Uncaught(o) ==
    CASE o = "image" -> "path"
      [] o = "none"  -> "null"
      [] o = "raise" -> "propagate"

\* generate_image: the output path when the backend gave an image, null when
\* it gave nothing or raised (the exception is caught and logged).
GenerateImageResult(o) ==
    CASE o = "image" -> "path"
      [] o = "none"  -> "null"
      [] o = "raise" -> "null"

\* os.path.join(self.scene_dir, f"scene_{i}_raw.png")
RawImagePath(k) == <<"raw", k>>

\* Image stage: skipped without an image prompt.
RenderImage ==
    /\ pc = "image"
    /\ IF CurrentScene.image_prompt = ""
       THEN /\ generated_img_path' = None
            /\ pc' = "slide"
            /\ UNCHANGED << files, writes, calls, outcome, result, exc >>
       ELSE \E o \in ImageOutcomes :
              LET r == GenerateImageResult(o) IN
              /\ calls' = LogCall(calls, "image", i)
              /\ outcome' = [outcome EXCEPT ![i].img =
                                 IF o = "image" THEN "ok" ELSE "fail"]
              /\ files' = IF o = "image"
                          THEN WriteFile(files, RawImagePath(i)[1], RawImagePath(i)[2], "data")
                          ELSE files
              /\ writes' = IF o = "image"
                           THEN LogWrite(writes, RawImagePath(i)[1], RawImagePath(i)[2])
                           ELSE writes
              /\ IF r = "propagate"
                 THEN /\ Raise(Exception("image backend error"))
                      /\ UNCHANGED generated_img_path
                 ELSE /\ generated_img_path' = IF r = "path" THEN Some(i) ELSE None
                      /\ pc' = "slide"
                      /\ UNCHANGED << result, exc >>
    /\ UNCHANGED << caller, rec, obj, script_data, i, slide_path, audio_path,
                    video_clips, failed_scenes, merge_input, duration_probe,
                    merge_outcome, event_loop >>
    /\ UNCHANGED << jobsVars, componentVars >>

\* create_slide that writes a slide only when it has an image to place.
CreateSlideLayout_ImageRequired(image_path, raw_exists, placed) ==
    IF image_path # None /\ raw_exists /\ placed THEN "illustrated" ELSE "none"

\* create_slide: the layout drawn.  With an image path whose file exists and
\* can be opened and pasted, the image takes the right half; otherwise (no
\* path, no file, or an error while placing it, which is caught) the text
\* takes the full width.
CreateSlideLayout(image_path, raw_exists, placed) ==
    IF image_path # None /\ raw_exists /\ placed THEN "illustrated" ELSE "text_only"

\* A slide saved over the raw image of its scene.
SlidePath_OverRaw(k) == <<"raw", k>>

\* os.path.join(self.scene_dir, f"scene_{index}.png")
SlidePath(k) == <<"slide", k>>

\* Slide stage: always writes scene_<i>.png.
ComposeSlide ==
    /\ pc = "slide"
    /\ \E placed \in BOOLEAN :
          LET layout == CreateSlideLayout(generated_img_path, Exists("raw", i), placed)
              path == SlidePath(i) IN
          /\ files' = IF layout = "none" THEN files
                      ELSE WriteFile(files, path[1], path[2], layout)
          /\ writes' = IF layout = "none" THEN writes
                       ELSE LogWrite(writes, path[1], path[2])
          /\ slide_path' = Some(i)
    /\ calls' = LogCall(calls, "slide", i)
    /\ pc' = "audio"
    /\ UNCHANGED << caller, rec, obj, script_data, i, generated_img_path,
                    audio_path, video_clips, failed_scenes, outcome, merge_input,
                    result, exc, duration_probe, merge_outcome, event_loop >>
    /\ UNCHANGED << jobsVars, componentVars >>

\* _generate_audio_async without the size check: an empty file passes.
GenerateAudioResult_NoSizeCheck(o) ==
    CASE o = "ok"       -> "path"
      [] o = "empty"    -> "path"
      [] o = "missing"  -> "null"
      [] o = "raise"    -> "null"
      [] o = "partial"  -> "null"
      [] o = "noimport" -> "null"

\* _generate_audio_async without the existence check: a missing file passes.
GenerateAudioResult_NoExistsCheck(o) ==
    CASE o = "ok"       -> "path"
      [] o = "empty"    -> "null"
      [] o = "missing"  -> "path"
      [] o = "raise"    -> "null"
      [] o = "partial"  -> "null"
      [] o = "noimport" -> "null"

\* _generate_audio_async as wrapped by generate_audio: the audio path only
\* when the backend wrote a file of non-zero size; null when edge_tts cannot
\* be imported, the backend raised (before or after it wrote part of the
\* file), or the file is missing or empty.
GenerateAudioResult(o) ==
    CASE o = "ok"       -> "path"
      [] o = "empty"    -> "null"
      [] o = "missing"  -> "null"
      [] o = "raise"    -> "null"
      [] o = "partial"  -> "null"
      [] o = "noimport" -> "null"

\* What the text-to-speech call leaves at audio/scene_<i>.mp3.
AudioFileAfter(o) ==
    CASE o = "ok"      -> "data"
      [] o = "empty"   -> "empty"
      [] o = "partial" -> "partial"
      [] OTHER         -> "absent"

\* A narration test that lets every scene through to the synthesizer.
NarrationMissing_Never(scene) == FALSE

\* "if not narration", with narration = scene.get("narration", ""): the
\* narration is absent, null or empty.
NarrationMissing(scene) == scene.narration = ""

\* Narration stage, up to the call of generate_audio: a scene without
\* narration is recorded as failed and the loop continues; otherwise
\* generate_audio is entered and creates its event loop.
SynthesizeNarration ==
    /\ pc = "audio"
    /\ IF NarrationMissing(CurrentScene)
       THEN /\ failed_scenes' = Append(failed_scenes, <<i, "No narration text">>)
            /\ NextIteration
            /\ UNCHANGED << calls, event_loop >>
       ELSE /\ calls' = LogCall(calls, "audio", i)
            /\ event_loop' = [event_loop EXCEPT ![i] = "open"]
            /\ pc' = "audio_run"
            /\ UNCHANGED << failed_scenes, i >>
    /\ UNCHANGED << caller, rec, obj, script_data, generated_img_path, slide_path,
                    audio_path, video_clips, files, outcome, merge_input, result,
                    exc, duration_probe, merge_outcome, writes >>
    /\ UNCHANGED << jobsVars, componentVars >>

\* generate_audio that closes its loop only after a successful synthesis.
LoopAfterCall_OnSuccessOnly(r) == IF r = "path" THEN "closed" ELSE "open"

\* generate_audio's "finally: loop.close()": the loop is closed however
\* run_until_complete ended.
LoopAfterCall(r) == "closed"

\* generate_audio from run_until_complete to its return, and run's test of
\* the result: a failed synthesis records the scene as failed and continues
\* with the next scene.
GenerateAudioReturn ==
    /\ pc = "audio_run"
    /\ \E o \in TtsOutcomes :
          LET r == GenerateAudioResult(o) IN
          /\ outcome' = [outcome EXCEPT ![i].audio =
                             IF o = "ok" THEN "ok" ELSE "fail"]
          /\ files' = WriteFile(files, "audio", i, AudioFileAfter(o))
          /\ writes' = IF AudioFileAfter(o) = "absent" THEN writes
                       ELSE LogWrite(writes, "audio", i)
          /\ event_loop' = [event_loop EXCEPT ![i] = LoopAfterCall(r)]
          /\ audio_path' = IF r = "path" THEN Some(i) ELSE None
          /\ IF r = "null"
             THEN /\ failed_scenes' =
                        Append(failed_scenes, <<i, "Audio generation failed">>)
                  /\ NextIteration
             ELSE /\ pc' = "clip"
                  /\ UNCHANGED << failed_scenes, i >>
    /\ UNCHANGED << caller, rec, obj, script_data, generated_img_path, slide_path,
                    video_clips, calls, merge_input, result, exc, duration_probe,
                    merge_outcome >>
    /\ UNCHANGED << jobsVars, componentVars >>

\* Whether audio/scene_<k>.mp3 exists with non-zero size.
AudioUsable(k) == files["audio"][k] = "data"

\* create_video_clip whose handler returns the output path instead of null.
CreateVideoClipResult_PathOnError(o, audio_usable) ==
    IF ~audio_usable THEN "null" ELSE "path"

\* create_video_clip: null when the audio file is missing or empty or the
\* encoder raised; otherwise the output path, whether or not the encoder
\* left a file there (its absence is only logged).
CreateVideoClipResult(o, audio_usable) ==
    IF ~audio_usable THEN "null"
    ELSE CASE o = "ok"     -> "path"
           [] o = "nofile" -> "path"
           [] o = "raise"  -> "null"

\* video_clips.insert(0, clip_path)
AppendClip_Prepend(clips, k) == <<k>> \o clips

\* video_clips.append(clip_path)
AppendClip(clips, k) == Append(clips, k)

\* A failed clip that is only logged.
ClipFailureRecord_LogOnly(failed, k) == failed

\* failed_scenes.append((i, "Video clip creation failed"))
ClipFailureRecord(failed, k) == Append(failed, <<k, "Video clip creation failed">>)

\* Clip stage: the clip joins the list, or the scene is recorded as failed.
AssembleClip ==
    /\ pc = "clip"
    /\ \E o \in ClipOutcomes :
          LET usable == AudioUsable(i)
              r == CreateVideoClipResult(o, usable) IN
          /\ calls' = LogCall(calls, "clip", i)
          /\ outcome' = [outcome EXCEPT ![i].clip =
                             IF ~usable \/ o = "raise" THEN "fail" ELSE o]
          /\ files' = IF usable /\ o = "ok"
                      THEN WriteFile(files, "clip", i, "data")
                      ELSE files
          /\ writes' = IF usable /\ o = "ok"
                       THEN LogWrite(writes, "clip", i)
                       ELSE writes
          /\ IF r = "path"
             THEN /\ video_clips' = AppendClip(video_clips, i)
                  /\ UNCHANGED failed_scenes
             ELSE /\ failed_scenes' = ClipFailureRecord(failed_scenes, i)
                  /\ UNCHANGED video_clips
    /\ NextIteration
    /\ UNCHANGED << caller, rec, obj, script_data, generated_img_path, slide_path,
                    audio_path, merge_input, result, exc, duration_probe,
                    merge_outcome, event_loop >>
    /\ UNCHANGED << jobsVars, componentVars >>

----------------------------------------------------------------------------
\* After the loop: the zero-clips check, the merge, and the return of run

\* The zero-clips check left out.
LoopFatal_Never(clips, failed) == FALSE

\* A loop that is fatal as soon as one scene failed.
LoopFatal_AnyFailure(clips, failed) == clips = << >> \/ failed # << >>

\* "if not video_clips": the loop's outcome is fatal.
LoopFatal(clips, failed) == clips = << >>

NoClipsError(failed) ==
    [reason |-> "No video clips were created.", failed |-> failed]

AfterLoop ==
    /\ pc = "after_loop"
    /\ IF LoopFatal(video_clips, failed_scenes)
       THEN /\ Raise(NoClipsError(failed_scenes))
            /\ UNCHANGED rec
       ELSE /\ rec' = UpdateTask(rec, [progress_message |->
                          Progress("Merging scenes into final video...", 0, 0)])
            /\ pc' = "merge"
            /\ UNCHANGED << result, exc >>
    /\ UNCHANGED << caller, obj, runLocals, files, calls, outcome, merge_input,
                    duration_probe >>
    /\ UNCHANGED << merge_outcome, event_loop, writes >>
    /\ UNCHANGED << jobsVars, componentVars >>

\* Every clip of the list can be opened by VideoFileClip.
ClipsReadable(clips) == \A n \in 1..Len(clips) : Exists("clip", clips[n])

\* merge_scenes whose handler returns the output path instead of null.
MergeScenesResult_PathOnError(o, readable) == "path"

\* merge_scenes: null when a clip cannot be loaded or the encoder raised;
\* otherwise the output path, whether or not the file is there.
MergeScenesResult(o, readable) ==
    IF ~readable THEN "null"
    ELSE CASE o = "ok"     -> "path"
           [] o = "nofile" -> "path"
           [] o = "raise"  -> "null"

MergeScenes ==
    /\ pc = "merge"
    /\ \E o \in MergeOutcomes :
          LET readable == ClipsReadable(video_clips)
              r == MergeScenesResult(o, readable) IN
          /\ files' = IF readable /\ o = "ok"
                      THEN WriteFile(files, "final", 0, "data")
                      ELSE files
          /\ writes' = IF readable /\ o = "ok"
                       THEN LogWrite(writes, "final", 0)
                       ELSE writes
          /\ merge_outcome' = IF readable THEN o ELSE "raise"
          /\ IF r = "null"
             THEN Raise(Exception("Failed to merge scenes into final video."))
             ELSE /\ result' = [kind |-> "returned", value |-> "final_video.mp4",
                                error |-> NoException]
                  /\ pc' = "store"
                  /\ UNCHANGED exc
    /\ merge_input' = Some(video_clips)
    /\ calls' = LogCall(calls, "merge", 0)
    /\ UNCHANGED << caller, rec, obj, runLocals, outcome, duration_probe,
                    event_loop >>
    /\ UNCHANGED << jobsVars, componentVars >>

----------------------------------------------------------------------------
\* The caller after run returned (tasks.py 33-84, views.py 674-710)

\* open(final_path) and video_file.save(..., save=False): the instance's file
\* field is set from the final video; a missing file raises.
StoreVideoFile ==
    /\ pc = "store"
    /\ IF Exists("final", 0)
       THEN /\ obj' = [obj EXCEPT !.video_file = Some("final_video.mp4")]
            /\ pc' = "probe"
            /\ UNCHANGED exc
       ELSE /\ exc' = Exception("No such file or directory")
            /\ pc' = "except"
            /\ UNCHANGED obj
    /\ UNCHANGED << caller, rec, runLocals, files, calls, outcome, merge_input,
                    result, duration_probe >>
    /\ UNCHANGED << merge_outcome, event_loop, writes >>
    /\ UNCHANGED << jobsVars, componentVars >>

\* Duration of the final video, one second per merged clip in the model.
FinalDuration == Len(merge_input[1])

\* The duration probe: VideoFileClip(final_path).duration, any error swallowed.
ProbeDuration ==
    /\ pc = "probe"
    /\ \E ok \in BOOLEAN :
          /\ duration_probe' = IF ok THEN "ok" ELSE "raise"
          /\ obj' = IF ok
                    THEN [obj EXCEPT !.duration_seconds = Some(FinalDuration)]
                    ELSE obj
    /\ pc' = "complete"
    /\ UNCHANGED << caller, rec, runLocals, files, calls, outcome, merge_input,
                    result, exc >>
    /\ UNCHANGED << merge_outcome, event_loop, writes >>
    /\ UNCHANGED << jobsVars, componentVars >>

\* The final save without the completion time.
CompletedFields_NoTimestamp(o) ==
    [o EXCEPT !.status = "completed",
              !.progress_message = Progress("Video generation complete.", 0, 0)]

\* The fields the caller sets before its final save.
CompletedFields(o) ==
    [o EXCEPT !.status = "completed",
              !.progress_message = Progress("Video generation complete.", 0, 0),
              !.completed_at = Some("now")]

\* video_task.save(): every field of the instance is written to the row.
Save(o) == o

Complete ==
    /\ pc = "complete"
    /\ obj' = CompletedFields(obj)
    /\ rec' = Save(obj')
    /\ pc' = "resource"
    /\ UNCHANGED << caller, runLocals, files, calls, outcome, merge_input,
                    result, exc, duration_probe >>
    /\ UNCHANGED << merge_outcome, event_loop, writes >>
    /\ UNCHANGED << jobsVars, componentVars >>

\* Resource creation without its own try/except: the error reaches the
\* caller's handler.
AfterResourceError_Propagates == "except"

\* Where control goes when creating the Resource record raises: the inner
\* try/except logs the error and the caller ends normally.
AfterResourceError == "done"

\* The Resource record for a job linked to a lesson.
CreateResource ==
    /\ pc = "resource"
    /\ \E o \in {"no_lesson", "created", "raise"} :
          pc' = IF o = "raise" THEN AfterResourceError ELSE "done"
    /\ exc' = IF pc' = "except" THEN Exception("resource error") ELSE exc
    /\ UNCHANGED << caller, rec, obj, runLocals, files, calls, outcome,
                    merge_input, result, duration_probe >>
    /\ UNCHANGED << merge_outcome, event_loop, writes >>
    /\ UNCHANGED << jobsVars, componentVars >>

\* A handler that only logs the failure.
CeleryFailure_LogOnly(row, e) == row

\* The Celery task's handler: a partial update of the row.
CeleryFailure(row, e) ==
    UpdateTask(row, [status |-> "failed",
                     error_message |-> Str(e),
                     progress_message |-> Progress("Generation failed.", 0, 0)])

\* The fallback thread's handler: the fields set on vt before vt.save().
ThreadFailure(o, e) ==
    [o EXCEPT !.status = "failed",
              !.progress_message = Progress("Error", 0, 0)]

\* A task that is run again after its handler marked the job failed.
AfterFailure_Retry == "load"

\* After the handler the caller ends: the Celery task has max_retries=0 and
\* never calls self.retry, and the thread function returns.
AfterFailure == "done"

\* "except Exception" of the caller.
HandleException ==
    /\ pc = "except"
    /\ IF caller = "celery"
       THEN /\ rec' = CeleryFailure(rec, exc)
            /\ UNCHANGED obj
       ELSE /\ obj' = ThreadFailure(obj, exc)
            /\ rec' = Save(obj')
    /\ pc' = AfterFailure
    /\ UNCHANGED << caller, runLocals, files, calls, outcome, merge_input,
                    result, exc, duration_probe >>
    /\ UNCHANGED << merge_outcome, event_loop, writes >>
    /\ UNCHANGED << jobsVars, componentVars >>

----------------------------------------------------------------------------
Next ==
    \/ Dispatch
    \/ FallbackStartFails
    \/ LoadTask
    \/ Construct
    \/ RunStart
    \/ GenerateScript
    \/ CheckScript
    \/ SceneBegin
    \/ RenderImage
    \/ ComposeSlide
    \/ SynthesizeNarration
    \/ GenerateAudioReturn
    \/ AssembleClip
    \/ AfterLoop
    \/ MergeScenes
    \/ StoreVideoFile
    \/ ProbeDuration
    \/ Complete
    \/ CreateResource
    \/ HandleException

Spec == Init /\ [][Next]_vars

----------------------------------------------------------------------------
\* Vocabulary of the properties

Terminal == {"completed", "failed"}

StageCalled(stage, k) == calls[stage][k] > 0

CallCount(stage, k) == calls[stage][k]

SceneNumbers == 1..NumScenes

InOrder(n) == [k \in 1..n |-> k]

ClipIn(clips, k) == \E n \in 1..Len(clips) : clips[n] = k

FailureRecorded(k, reason) ==
    \E n \in 1..Len(failed_scenes) : failed_scenes[n] = <<k, reason>>

NoFailureRecord(k) ==
    \A n \in 1..Len(failed_scenes) : failed_scenes[n][1] # k

RunEnded == result.kind # "none"

FinalVideoWritten == Exists("final", 0)

StrictlyIncreasing(s) == \A n \in 1..(Len(s) - 1) : s[n] < s[n + 1]

\* clips lists exactly the scenes whose clip assembly returned a path, each
\* once and in scene order.
IsScenesWithClip(clips) ==
    /\ StrictlyIncreasing(clips)
    /\ \A n \in 1..Len(clips) : clips[n] \in SceneNumbers
    /\ \A k \in SceneNumbers :
          ClipIn(clips, k) <=> outcome[k].clip \in {"ok", "nofile"}

----------------------------------------------------------------------------
\* C1 as stated: the status of the job record only moves Pending->Processing,
\* Processing->Completed or Processing->Failed (so never to Completed or
\* Failed without Processing first), and once Completed or Failed it is never
\* written with another value and no further pipeline stage runs.
C1_StatusOnlyThroughProcessing ==
    [][ /\ (rec'.status # rec.status /\ caller \in {"celery", "thread"}) =>
              <<rec.status, rec'.status>> \in
                  { <<"pending", "processing">>,
                    <<"processing", "completed">>,
                    <<"processing", "failed">> }
        /\ rec.status \in Terminal => rec'.status = rec.status /\ calls' = calls
      ]_vars

\* C1 amended: the status moves only Pending->Processing,
\* Processing->Completed, Processing->Failed, or Pending->Failed when the job
\* fails before run starts (no pipeline stage has run: the workspace could not
\* be created, or the fallback could not be started); once Completed or Failed
\* it is never written with another value and no further pipeline stage runs.
C1_StatusTransitions ==
    [][ /\ rec'.status # rec.status =>
              \/ <<rec.status, rec'.status>> \in
                     { <<"pending", "processing">>,
                       <<"processing", "completed">>,
                       <<"processing", "failed">> }
              \/ /\ <<rec.status, rec'.status>> = <<"pending", "failed">>
                 /\ calls = NoCalls
                 /\ result.kind = "none"
        /\ rec.status \in Terminal => rec'.status = rec.status /\ calls' = calls
      ]_vars

\* A job that went through the pipeline with a failed scene and completed.
C1_Witness ==
    /\ pc = "done"
    /\ rec.status = "completed"
    /\ failed_scenes # << >>
    /\ StageCalled("merge", 0)

\* C2: whenever the job record has status Failed, its error_message is set
\* (non-empty), under either caller.
C2_FailedHasErrorMessage ==
    (rec.status = "failed" /\ caller \in {"celery", "thread"}) =>
        rec.error_message.text # ""

AllScenesSucceeded ==
    /\ NumScenes >= 1
    /\ \A k \in SceneNumbers :
          /\ ScenesOf(script_data)[k].narration # ""
          /\ outcome[k].audio = "ok"
          /\ outcome[k].clip = "ok"

\* C4 as stated: when every scene of an N-scene script succeeds, run calls the
\* Merger exactly once with the N clips of scenes 1..N in order and returns
\* the merged video path.
C4_AllScenesMergedAndReturned ==
    (AllScenesSucceeded /\ RunEnded) =>
        /\ CallCount("merge", 0) = 1
        /\ merge_input = Some(InOrder(NumScenes))
        /\ result.kind = "returned"
        /\ result.value = "final_video.mp4"

\* C4 amended: when every scene of an N-scene script succeeds, run calls the
\* Merger exactly once with the N clips of scenes 1..N in order; it returns
\* the merged video path when the Merger returns one, and raises the merge
\* error when the Merger fails.
C4_AllScenesMerged ==
    (AllScenesSucceeded /\ RunEnded) =>
        /\ CallCount("merge", 0) = 1
        /\ merge_input = Some(InOrder(NumScenes))
        /\ \/ result.kind = "returned" /\ result.value = "final_video.mp4"
           \/ /\ result.kind = "raised"
              /\ result.error.reason = "Failed to merge scenes into final video."
              /\ ~FinalVideoWritten
        /\ FinalVideoWritten => result.kind = "returned"

\* All scenes of a full-size script succeeded and run returned.
C4_Witness ==
    /\ AllScenesSucceeded
    /\ NumScenes = MaxScenes
    /\ result.kind = "returned"

\* C5: the clip list, and the list handed to the Merger, is the subsequence
\* of the scenes whose clip assembly returned a path, in strictly increasing
\* scene order, without duplicates and without any failed scene.
C5_ClipOrder ==
    /\ IsScenesWithClip(video_clips)
    /\ merge_input # None =>
          /\ merge_input[1] = video_clips
          /\ IsScenesWithClip(merge_input[1])
          /\ \A k \in SceneNumbers :
                outcome[k].clip \in {"na", "fail"} => ~ClipIn(merge_input[1], k)

\* Scene 1 failed clip assembly and the Merger received scene 2 alone.
C5_Witness ==
    /\ merge_input = Some(<<2>>)
    /\ outcome[1].clip = "fail"

\* C6: when the loop ends with zero clips, run raises the no-clips error, the
\* Merger is never invoked, no final video is written and the job ends Failed.
C6_ZeroClipsFatal ==
    (video_clips = << >> /\ NumScenes >= 1
        /\ pc \in {"merge", "store", "probe", "complete", "resource", "except", "done"}) =>
        /\ result.kind = "raised"
        /\ result.error.reason = "No video clips were created."
        /\ result.error.failed = failed_scenes
        /\ ~StageCalled("merge", 0)
        /\ merge_input = None
        /\ ~FinalVideoWritten
        /\ rec.status # "completed"
        /\ pc = "done" => rec.status = "failed"

\* Every scene of a full-size script failed clip assembly and the job ended.
C6_Witness ==
    /\ pc = "done"
    /\ NumScenes = MaxScenes
    /\ \A k \in SceneNumbers : outcome[k].clip = "fail"
    /\ result.error.reason = "No video clips were created."
    /\ rec.status = "failed"

\* C7: when narration synthesis fails for scene k, clip assembly is not
\* invoked for k, no clip of k reaches the Merger, the Merger's list has fewer
\* than N clips, and the failure (k, reason) is recorded.
C7_NarrationFailureSkipsScene ==
    \A k \in SceneNumbers :
        outcome[k].audio = "fail" =>
            /\ ~StageCalled("clip", k)
            /\ ~ClipIn(video_clips, k)
            /\ FailureRecorded(k, "Audio generation failed")
            /\ merge_input # None =>
                  /\ ~ClipIn(merge_input[1], k)
                  /\ Len(merge_input[1]) < NumScenes

\* Narration failed for scene 1 and the Merger got scene 2 alone.
C7_Witness ==
    /\ NumScenes = MaxScenes
    /\ outcome[1].audio = "fail"
    /\ merge_input = Some(<<2>>)

\* C8: when image rendering fails for scene k but narration synthesis and
\* clip assembly succeed, a text-only slide is composed, the clip of k is in
\* the list, and no failure is recorded for k.
C8_ImageFailureTolerated ==
    \A k \in SceneNumbers :
        (outcome[k].img = "fail" /\ outcome[k].audio = "ok"
            /\ outcome[k].clip = "ok") =>
            /\ files["slide"][k] = "text_only"
            /\ files["clip"][k] = "data"
            /\ ClipIn(video_clips, k)
            /\ NoFailureRecord(k)

\* Image rendering failed for scene 1, whose clip is merged all the same.
C8_Witness ==
    /\ outcome[1].img = "fail"
    /\ outcome[1].clip = "ok"
    /\ merge_input # None
    /\ ClipIn(merge_input[1], 1)

FatalReasons ==
    { "Failed to generate script from Ollama.",
      "object has no attribute 'get'",
      "Script contains no scenes.",
      "No video clips were created.",
      "Failed to merge scenes into final video." }

\* Scene k went through its stages: progress update, slide, and the image,
\* narration and clip stages its data and earlier stages call for.
SceneProcessed(k) ==
    /\ CallCount("progress", k) = 1
    /\ CallCount("slide", k) = 1
    /\ ScenesOf(script_data)[k].image_prompt # "" => StageCalled("image", k)
    /\ ScenesOf(script_data)[k].narration # "" => StageCalled("audio", k)
    /\ outcome[k].audio = "ok" => StageCalled("clip", k)

\* C9: a failure of image rendering, narration synthesis or clip assembly at
\* a scene never makes run raise inside the loop: run only raises one of its
\* fatal errors outside the loop, every later scene is still processed, and
\* narration and assembly failures are recorded.
C9_SceneFailuresDoNotRaise ==
    /\ result.kind = "raised" => result.error.reason \in FatalReasons
    /\ (RunEnded /\ NumScenes >= 1) => i = NumScenes + 1
    /\ \A k \in SceneNumbers :
          /\ k < i => SceneProcessed(k)
          /\ outcome[k].audio = "fail" =>
                FailureRecorded(k, "Audio generation failed")
          /\ outcome[k].clip = "fail" =>
                FailureRecorded(k, "Video clip creation failed")
    /\ pc \in {"scene", "image", "slide", "audio", "audio_run", "clip"} =>
          result.kind = "none"

\* Scene 1 lost its image and its narration, and scene 2 was still processed
\* to a clip.
C9_Witness ==
    /\ outcome[1].img = "fail"
    /\ outcome[1].audio = "fail"
    /\ outcome[2].clip = "ok"
    /\ SceneProcessed(2)

\* The Merger was invoked and left no final video.
MergeFailed == merge_input # None /\ ~FinalVideoWritten

\* C10: if at least one scene yields a clip and the Merger succeeds, the job
\* ends Completed and is never Failed, however many other scenes failed.
C10_PartialFailureCompletes ==
    /\ (pc = "done" /\ \E k \in SceneNumbers : outcome[k].clip = "ok") =>
          rec.status = "completed" \/ MergeFailed
    /\ FinalVideoWritten => rec.status # "failed"
    /\ (pc = "done" /\ FinalVideoWritten) => rec.status = "completed"

\* Narration failed for scene 2 only; the Merger got the remaining clip and
\* the job completed.
C10_Witness ==
    /\ pc = "done"
    /\ NumScenes = MaxScenes
    /\ \A k \in SceneNumbers : outcome[k].audio = (IF k = 2 THEN "fail" ELSE "ok")
    /\ merge_input = Some(<<1>>)
    /\ rec.status = "completed"

----------------------------------------------------------------------------
\* generate_script returned null: the backend raised or its text did not
\* parse.
ScriptGenerationFailed == StageCalled("text", 0) /\ script_data.kind = "null"

\* No image, slide, narration, clip-assembly or merge stage was invoked, no
\* scene was begun, and the scenes, audio and video directories are empty.
NoSceneStageRan ==
    /\ \A stage \in Stages \ {"text"} : \A k \in 0..MaxScenes : ~StageCalled(stage, k)
    /\ \A kind \in FileKinds \ {"script"} : \A k \in 0..MaxScenes : ~Exists(kind, k)
    /\ merge_input = None

\* C11: when the text backend raises or returns text that is not JSON,
\* generate_script returns null without raising and writes no script file;
\* run raises "Failed to generate script ..." before any image, slide,
\* narration, clip or merge stage, the scenes, audio and video directories
\* stay empty, and the job ends Failed.
C11_ScriptFailureIsFatal ==
    ScriptGenerationFailed =>
        /\ ~Exists("script", 0)
        /\ writes["script"][0] = 0
        /\ NoSceneStageRan
        /\ \/ pc = "check_script" /\ result.kind = "none"
           \/ /\ pc \in {"except", "done"}
              /\ result.kind = "raised"
              /\ result.error.reason = "Failed to generate script from Ollama."
        /\ rec.script_data = NullScript
        /\ rec.status # "completed"
        /\ pc = "done" => rec.status = "failed"

\* The text backend failed under the thread fallback and the job ended Failed.
C11_Witness ==
    /\ ScriptGenerationFailed
    /\ pc = "done"
    /\ caller = "thread"
    /\ rec.status = "failed"

\* C12: if the parsed script has no scene list or an empty one, run raises a
\* fatal error with a "no script" / "no scenes" reason before any per-scene
\* stage or the Merger, the script is not written to the job record, and the
\* job ends Failed.
C12_NoSceneListIsFatal ==
    (StageCalled("text", 0) /\ script_data.kind # "null"
        /\ ScenesOf(script_data) = << >> /\ pc \notin {"script", "check_script"}) =>
        /\ result.kind = "raised"
        /\ result.error.reason \in { "Failed to generate script from Ollama.",
                                     "Script contains no scenes." }
        /\ NoSceneStageRan
        /\ rec.script_data = NullScript
        /\ pc = "done" => rec.status = "failed"

\* C13: if merge_scenes returns null after the loop produced at least one
\* clip, run raises the merge error and the job ends Failed, never Completed,
\* with no result video reference on the job record.
C13_MergeFailureIsFatal ==
    merge_outcome = "raise" =>
        /\ video_clips # << >>
        /\ merge_input = Some(video_clips)
        /\ pc \in {"except", "done"}
        /\ result.kind = "raised"
        /\ result.error.reason = "Failed to merge scenes into final video."
        /\ rec.status # "completed"
        /\ rec.video_file = None
        /\ obj.video_file = None
        /\ pc = "done" => rec.status = "failed"

\* Every scene of a full-size script gave a clip, the encoder raised in
\* merge_scenes, and the job ended Failed.
C13_Witness ==
    /\ merge_outcome = "raise"
    /\ Len(video_clips) = MaxScenes
    /\ ClipsReadable(video_clips)
    /\ pc = "done"
    /\ rec.status = "failed"

\* C14: within one job no stage is retried: the text backend is called at
\* most once, each of image rendering, slide composition, narration synthesis
\* and clip assembly at most once per scene, the Merger at most once, and the
\* caller (the Celery task included) is not run again once it has ended or
\* failed.
C14_NoStageRetried ==
    [][ /\ \A stage \in Stages : \A k \in 0..MaxScenes : calls'[stage][k] <= 1
        /\ pc # "done"
        /\ pc' = "load" => pc = "created"
        /\ pc = "except" => pc' = "done" /\ calls' = calls
      ]_vars

\* Under Celery, clip assembly failed for every scene and the job ended
\* Failed with each stage invoked once.
C14_Witness ==
    /\ pc = "done"
    /\ caller = "celery"
    /\ rec.status = "failed"
    /\ NumScenes = MaxScenes
    /\ \A k \in SceneNumbers :
          /\ outcome[k].clip = "fail"
          /\ CallCount("audio", k) = 1
          /\ CallCount("clip", k) = 1
    /\ CallCount("text", 0) = 1

----------------------------------------------------------------------------
\* Several jobs at once.  Each job runs in its own worker (a Celery task or a
\* fallback thread); the steps below are the record updates and the file
\* writes of one job, and the workers' steps interleave freely.

\* self.task_id = str(task_id)
ServiceTaskId(job) == job

\* A workspace built without the job id: every job shares MEDIA_ROOT/videos.
WorkspaceOf_Shared(task_id) == 0

\* base = os.path.join(settings.MEDIA_ROOT, "videos", self.task_id)
WorkspaceOf(task_id) == task_id

\* VideoTask.objects.filter(pk=self.task_id)
RowsWithPk(task_id) == {task_id}

\* _update_task(**fields) and the Celery handler's filter(...).update(...).
UpdateRows(table, task_id, fields) ==
    [j \in Jobs |-> IF j \in RowsWithPk(task_id)
                    THEN UpdateTask(table[j], fields)
                    ELSE table[j]]

\* instance.save(): the row of the instance's primary key is written whole.
SaveRow(table, pk, o) == [table EXCEPT ![pk] = Save(o)]

\* A stage of job task_id writes an artifact into the job's workspace.
WriteArtifact(d, task_id, kind) ==
    [d EXCEPT ![WorkspaceOf(task_id)][kind] = task_id]

\* video_file.save(f"video_{task_id}.mp4", ...): the stored file's name.
StoredName(job) == job

\* The script of a job in the model of several jobs.
JobScriptData ==
    [kind |-> "obj", keys |-> {"scenes"},
     scenes |-> << [narration |-> "text", image_prompt |-> ""] >>]

ProcessingFields ==
    [status |-> "processing", progress_message |-> Progress("Generating script...", 0, 0)]

ScriptFields ==
    [script_data |-> JobScriptData, progress_message |-> Progress("Script ready", 0, 1)]

SetWorker(w, fields) ==
    [workers EXCEPT ![w] = [f \in DOMAIN @ |->
                               IF f \in DOMAIN fields THEN fields[f] ELSE @[f]]]

\* GenerateVideoView.post hands job w to Celery or to a fallback thread.
JobDispatch(w) ==
    /\ workers[w].pc = "created"
    /\ \E c \in {"celery", "thread"} :
          workers' = SetWorker(w, [pc |-> "load", caller |-> c])
    /\ UNCHANGED << rows, disk, stored, pipelineVars, componentVars >>

\* The caller loads its instance by primary key and builds the service.
JobLoad(w) ==
    /\ workers[w].pc = "load"
    /\ workers' = SetWorker(w, [pc |-> "run", vt |-> rows[w],
                                task_id |-> ServiceTaskId(w)])
    /\ UNCHANGED << rows, disk, stored, pipelineVars, componentVars >>

\* run, first statement.
JobRunStart(w) ==
    /\ workers[w].pc = "run"
    /\ rows' = UpdateRows(rows, workers[w].task_id, ProcessingFields)
    /\ workers' = SetWorker(w, [pc |-> "script"])
    /\ UNCHANGED << disk, stored, pipelineVars, componentVars >>

\* generate_script and the script checks of run.
JobScript(w) ==
    /\ workers[w].pc = "script"
    /\ \E ok \in BOOLEAN :
          IF ok
          THEN /\ disk' = WriteArtifact(disk, workers[w].task_id, "script")
               /\ rows' = UpdateRows(rows, workers[w].task_id, ScriptFields)
               /\ workers' = SetWorker(w, [pc |-> "scenes", script |-> "ok"])
          ELSE /\ workers' = SetWorker(w,
                     [pc |-> "except", script |-> "fail",
                      exc |-> Exception("Failed to generate script from Ollama.")])
               /\ UNCHANGED << rows, disk >>
    /\ UNCHANGED << stored, pipelineVars, componentVars >>

\* The per-scene loop of run and the zero-clips check.
JobScenes(w) ==
    /\ workers[w].pc = "scenes"
    /\ \E some \in BOOLEAN :
          IF some
          THEN /\ disk' = WriteArtifact(disk, workers[w].task_id, "clip")
               /\ rows' = UpdateRows(rows, workers[w].task_id,
                              [progress_message |->
                                   Progress("Merging scenes into final video...", 0, 0)])
               /\ workers' = SetWorker(w, [pc |-> "merge", clips |-> "some"])
          ELSE /\ rows' = UpdateRows(rows, workers[w].task_id,
                              [progress_message |-> Progress("Processing scene", 1, 1)])
               /\ workers' = SetWorker(w,
                     [pc |-> "except", clips |-> "none",
                      exc |-> NoClipsError(<< <<1, "Audio generation failed">> >>)])
               /\ UNCHANGED disk
    /\ UNCHANGED << stored, pipelineVars, componentVars >>

\* merge_scenes and the return of run.
JobMerge(w) ==
    /\ workers[w].pc = "merge"
    /\ \E ok \in BOOLEAN :
          IF ok
          THEN /\ disk' = WriteArtifact(disk, workers[w].task_id, "final")
               /\ workers' = SetWorker(w, [pc |-> "complete", merge |-> "ok"])
          ELSE /\ workers' = SetWorker(w,
                     [pc |-> "except", merge |-> "fail",
                      exc |-> Exception("Failed to merge scenes into final video.")])
               /\ UNCHANGED disk
    /\ UNCHANGED << rows, stored, pipelineVars, componentVars >>

\* The caller stores the final video and saves its instance as completed.
JobComplete(w) ==
    /\ workers[w].pc = "complete"
    /\ stored' = [stored EXCEPT ![StoredName(w)] =
                     disk[WorkspaceOf(workers[w].task_id)]["final"]]
    /\ LET vt == CompletedFields(
                     [workers[w].vt EXCEPT !.video_file = Some(StoredName(w))]) IN
          /\ workers' = SetWorker(w, [pc |-> "done", vt |-> vt])
          /\ rows' = SaveRow(rows, w, vt)
    /\ UNCHANGED << disk, pipelineVars, componentVars >>

\* The caller's handler.
JobFail(w) ==
    /\ workers[w].pc = "except"
    /\ IF workers[w].caller = "celery"
       THEN /\ rows' = [j \in Jobs |->
                          IF j \in RowsWithPk(w)
                          THEN CeleryFailure(rows[j], workers[w].exc)
                          ELSE rows[j]]
            /\ workers' = SetWorker(w, [pc |-> "done"])
       ELSE LET vt == ThreadFailure(workers[w].vt, workers[w].exc) IN
            /\ rows' = SaveRow(rows, w, vt)
            /\ workers' = SetWorker(w, [pc |-> "done", vt |-> vt])
    /\ UNCHANGED << disk, stored, pipelineVars, componentVars >>

NextJobs ==
    \/ \E w \in Jobs : JobDispatch(w)
    \/ \E w \in Jobs : JobLoad(w)
    \/ \E w \in Jobs : JobRunStart(w)
    \/ \E w \in Jobs : JobScript(w)
    \/ \E w \in Jobs : JobScenes(w)
    \/ \E w \in Jobs : JobMerge(w)
    \/ \E w \in Jobs : JobComplete(w)
    \/ \E w \in Jobs : JobFail(w)

SpecJobs == Init /\ [][NextJobs]_vars

\* The record a job ends with when it runs alone, from its caller and the
\* answers its own stages got.
RowWhenAlone(wk, job) ==
    LET r1 == UpdateTask(NewVideoTask, ProcessingFields)
        r2 == IF wk.script = "ok" THEN UpdateTask(r1, ScriptFields) ELSE r1
    IN  IF wk.merge = "ok"
        THEN Save(CompletedFields(
                 [NewVideoTask EXCEPT !.video_file = Some(StoredName(job))]))
        ELSE IF wk.caller = "celery"
        THEN CeleryFailure(r2, wk.exc)
        ELSE Save(ThreadFailure(NewVideoTask, wk.exc))

\* The artifacts a job leaves in its workspace when it runs alone.
FilesWhenAlone(wk, job) ==
    [kind \in ArtifactKinds |->
        CASE kind = "script" -> IF wk.script = "ok" THEN job ELSE 0
          [] kind = "clip"   -> IF wk.clips = "some" THEN job ELSE 0
          [] kind = "final"  -> IF wk.merge = "ok" THEN job ELSE 0]

----------------------------------------------------------------------------
\* generate_audio is executing for scene k: its loop was created and
\* run_until_complete has not returned.
SynthesisInProgress(k) == pc = "audio_run" /\ i = k

\* C16: each generate_audio call creates its own event loop and closes it on
\* every exit path before returning; within one job at most one narration
\* synthesis is in progress at any time, and no event loop of one scene is
\* still open when the next scene starts.
C16_EventLoopPerCall ==
    /\ \A k \in 1..MaxScenes :
          /\ event_loop[k] = "open" <=> SynthesisInProgress(k)
          /\ event_loop[k] = "none" <=> ~StageCalled("audio", k)
          /\ (StageCalled("audio", k) /\ ~SynthesisInProgress(k)) =>
                event_loop[k] = "closed"
    /\ \A k1, k2 \in 1..MaxScenes :
          (event_loop[k1] = "open" /\ event_loop[k2] = "open") => k1 = k2
    /\ pc \in {"scene", "image", "slide", "audio", "clip"} =>
          \A k \in 1..MaxScenes : event_loop[k] # "open"

\* Synthesis gave a null result for scene 1, whose loop is closed, and the
\* synthesis of scene 2 is running on its own loop.
C16_Witness ==
    /\ outcome[1].audio = "fail"
    /\ event_loop[1] = "closed"
    /\ event_loop[2] = "open"

\* C17: generate_audio returns a non-null path only if the audio file exists
\* with non-zero size; a missing file, a zero-byte file or a backend
\* exception each give null, which run records as a synthesis failure without
\* raising.
C17_AudioPostCondition ==
    /\ pc = "clip" => audio_path = Some(i)
    /\ pc \in {"audio", "audio_run"} => ~StageCalled("clip", i)
    /\ \A k \in SceneNumbers :
          /\ (StageCalled("clip", k) \/ (pc = "clip" /\ i = k)) =>
                files["audio"][k] = "data"
          /\ (event_loop[k] = "closed" /\ files["audio"][k] # "data") =>
                /\ files["audio"][k] \in {"absent", "empty", "partial"}
                /\ ~StageCalled("clip", k)
                /\ k < i
                /\ FailureRecorded(k, "Audio generation failed")
                /\ result.kind = "raised" => result.error.reason \in FatalReasons

\* The backend left a zero-byte file for scene 1, which was recorded as failed,
\* and a usable file for scene 2, whose path reached clip assembly.
C17_Witness ==
    /\ files["audio"][1] = "empty"
    /\ FailureRecorded(1, "Audio generation failed")
    /\ files["audio"][2] = "data"
    /\ pc = "clip"
    /\ audio_path = Some(2)

\* The stage that writes each kind of file.
StageOf(kind) ==
    CASE kind = "script" -> "text"
      [] kind = "raw"    -> "image"
      [] kind = "slide"  -> "slide"
      [] kind = "audio"  -> "audio"
      [] kind = "clip"   -> "clip"
      [] kind = "final"  -> "merge"

\* C18: no artifact file is written more than once: the script file, each
\* scene's raw image, slide, audio and clip file and the final video are each
\* written by one invocation of their own stage and never overwritten or
\* modified afterwards.
C18_ArtifactsWrittenOnce ==
    [][ \A kind \in FileKinds : \A k \in 0..MaxScenes :
            /\ writes'[kind][k] <= 1
            /\ files[kind][k] # "absent" => files'[kind][k] = files[kind][k]
            /\ files'[kind][k] # "absent" => writes'[kind][k] = 1
            /\ writes'[kind][k] # writes[kind][k] =>
                  /\ calls'[StageOf(kind)][k] = 1
                  /\ \A other \in FileKinds \ {kind} :
                        writes'[other][k] = writes[other][k]
      ]_vars

\* A job whose script, first scene and merge each wrote their file once.
C18_Witness ==
    /\ writes["script"][0] = 1
    /\ writes["raw"][1] = 1
    /\ writes["slide"][1] = 1
    /\ writes["audio"][1] = 1
    /\ writes["clip"][1] = 1
    /\ writes["final"][0] = 1

----------------------------------------------------------------------------
\* A record store whose calls return or raise.  In Spec every call of the
\* record store succeeds; the actions below add the calls that raise.

StoreError == Exception("record store error")

\* run is at one of its _update_task calls.
AtUpdateTask ==
    \/ pc \in {"run", "scene"}
    \/ /\ pc = "check_script"
       /\ Truthy(script_data)
       /\ script_data.kind = "obj"
       /\ ScenesOf(script_data) # << >>
    \/ pc = "after_loop" /\ ~LoopFatal(video_clips, failed_scenes)

\* _update_task raises inside run: the error leaves run like any other.
UpdateTaskRaises ==
    /\ AtUpdateTask
    /\ Raise(StoreError)
    /\ UNCHANGED << caller, rec, obj, runLocals, files, calls, outcome,
                    merge_input, duration_probe, merge_outcome, event_loop,
                    writes, jobsVars, componentVars >>

\* The caller's final save raises, inside its try block.
SaveRaises ==
    /\ pc = "complete"
    /\ obj' = CompletedFields(obj)
    /\ exc' = StoreError
    /\ pc' = "except"
    /\ UNCHANGED << caller, rec, runLocals, files, calls, outcome, merge_input,
                    result, duration_probe, merge_outcome, event_loop, writes,
                    jobsVars, componentVars >>

\* The handler's own update or save raises: the exception leaves the task or
\* the thread function and the row keeps its status.
HandlerRaises ==
    /\ pc = "except"
    /\ pc' = "crashed"
    /\ UNCHANGED << caller, rec, obj, runLocals, files, calls, outcome,
                    merge_input, result, exc, duration_probe, merge_outcome,
                    event_loop, writes, jobsVars, componentVars >>

NextLive ==
    \/ Next
    \/ UpdateTaskRaises
    \/ SaveRaises
    \/ HandlerRaises

\* The callers keep executing: every call returns or raises, so the worker
\* always takes its next step.
SpecLive == Init /\ [][NextLive]_vars /\ WF_vars(NextLive)

\* The caller, Celery task or fallback thread, has called run.
PipelineStarted == pc = "run" /\ caller \in {"celery", "thread"}

\* C19 as stated: assuming every backend call and record-store call returns
\* or raises, every job whose pipeline has been started eventually reaches
\* Completed or Failed and stays there, whichever stage fails and whichever
\* caller runs it.
C19_JobTerminates ==
    [](PipelineStarted => <>[](rec.status \in Terminal))

\* C19 amended: assuming every backend call and record-store call returns or
\* raises, every started job's caller ends, and the job is then Completed or
\* Failed for good unless the handler's own status write to the record store
\* raised; an error of the record store inside run or at the final save is
\* caught like any other and ends in Failed.
\* (Stated for every behaviour: one whose pipeline never starts also ends in
\* one of these two ways.)
C19_JobTerminatesUnlessHandlerRaises ==
    <>[](\/ pc = "done" /\ rec.status \in Terminal
         \/ pc = "crashed" /\ exc # NoException)

\* Under the thread fallback the record store raised inside run, the handler's
\* save went through, and the job ended Failed.
C19_Witness ==
    /\ pc = "done"
    /\ caller = "thread"
    /\ exc = StoreError
    /\ result.kind = "raised"
    /\ rec.status = "failed"

\* C20: for a scene whose narration is empty or absent the synthesizer and the
\* clip assembler are never invoked, no clip of it enters the merge list, a
\* failure record is added, and the loop continues with the next scene.
C20_EmptyNarrationSkipsScene ==
    \A k \in SceneNumbers :
        ScenesOf(script_data)[k].narration = "" =>
            /\ ~StageCalled("audio", k)
            /\ ~StageCalled("clip", k)
            /\ event_loop[k] = "none"
            /\ ~Exists("audio", k) /\ ~Exists("clip", k)
            /\ ~ClipIn(video_clips, k)
            /\ merge_input # None => ~ClipIn(merge_input[1], k)
            /\ k < i =>
                  /\ FailureRecorded(k, "No narration text")
                  /\ CallCount("slide", k) = 1
                  /\ k < NumScenes =>
                        \/ CallCount("progress", k + 1) = 1
                        \/ pc = "scene" /\ i = k + 1
            /\ (RunEnded /\ NumScenes >= 1) => i = NumScenes + 1

\* Scene 1 has no narration; scene 2 was processed and its clip alone reached
\* the Merger.
C20_Witness ==
    /\ NumScenes = MaxScenes
    /\ ScenesOf(script_data)[1].narration = ""
    /\ FailureRecorded(1, "No narration text")
    /\ outcome[2].clip = "ok"
    /\ merge_input = Some(<<2>>)

----------------------------------------------------------------------------
\* Question (pre_assessment_service.py): the validator of the options field.

MaxOptions == 5

dont_know_text == "I don't know about this course"

\* The entries an options list is made of: real options, a stray comma, and
\* the "I don't know" text.
OptionTexts == {"Option A", "Option B", ",", dont_know_text}

RECURSIVE SeqsUpTo(_, _)
SeqsUpTo(S, n) ==
    IF n = 0 THEN {<< >>}
    ELSE LET shorter == SeqsUpTo(S, n - 1)
         IN  shorter \cup {Append(s, x) : s \in {q \in shorter : Len(q) = n - 1}, x \in S}

OptionLists == SeqsUpTo(OptionTexts, MaxOptions)

\* len(v) < 3 or len(v) > 4
OptionCountRejected(l) == Len(l) < 3 \/ Len(l) > 4

\* [opt for opt in v if opt != dont_know_text]
options_without_dont_know(l) == SelectSeq(l, LAMBDA opt : opt # dont_know_text)

\* options_without_dont_know[:3]
FirstThree(l) == IF Len(l) > 3 THEN SubSeq(l, 1, 3) ELSE l

\* validate_options(v): the ValueError, or the list the field is set to.
validate_options(l) ==
    IF OptionCountRejected(l)
    THEN [kind |-> "ValueError", options |-> << >>]
    ELSE [kind |-> "ok",
          options |-> Append(FirstThree(options_without_dont_know(l)), dont_know_text)]

\* Question(question_text=..., options=l, ...): pydantic runs the validator
\* on the list and either raises or builds the object.
ConstructQuestion(l) ==
    /\ question.kind = "none"
    /\ options' = l
    /\ question' = validate_options(l)
    /\ UNCHANGED << pipelineVars, jobsVars, trackerVars, syllabusVars, imagingVars >>

NextQuestion == \E l \in OptionLists : ConstructQuestion(l)

SpecQuestion == Init /\ [][NextQuestion]_vars

\* C21: every Question that passed validation has exactly 4 options, the
\* last one is "I don't know about this course" and none of the first three
\* is that text.
C21_ValidatedQuestionHasFourOptions ==
    question.kind = "ok" =>
        /\ Len(question.options) = 4
        /\ question.options[4] = dont_know_text
        /\ \A k \in 1..3 : question.options[k] # dont_know_text

\* C22: constructing a Question from more than 4 entries succeeds with exactly
\* 4 options ending in "I don't know about this course", and constructing
\* one from fewer than 3 entries raises a ValueError.
C22_LongListsAreNormalised ==
    question.kind # "none" =>
        /\ Len(options) > 4 =>
              /\ question.kind = "ok"
              /\ Len(question.options) = 4
              /\ question.options[4] = dont_know_text
        /\ Len(options) < 3 => question.kind = "ValueError"

----------------------------------------------------------------------------
\* token_tracker.py: record() and get_totals() called from several threads.
\* A statement "x += n" on a module global is a load, an add and a store, so
\* it is two steps here; the with-block is acquire ... release.

TokenCounts == 0..1

\* with _lock: the lock is acquired only when no thread holds it.
LockIsFree_Always == TRUE

LockIsFree == lock = 0

SetThread(t, fields) == tracker' = [tracker EXCEPT ![t] = fields]

\* The calls made so far: those that returned and those in progress.
CallsMade ==
    completed.counted + completed.skipped + completed.totals
        + Cardinality({t \in Threads : tracker[t].pc # "idle"})

\* At most MaxCalls calls are made in all.
MayCall(t) == tracker[t].pc = "idle" /\ CallsMade < MaxCalls

\* if not prompt_tokens and not completion_tokens: return
NothingToRecord(p, c) == p = 0 /\ c = 0

\* record(prompt_tokens, completion_tokens): the early return, or on to the
\* with-block.
RecordCall(t, p, c) ==
    /\ MayCall(t)
    /\ IF NothingToRecord(p, c)
       THEN /\ UNCHANGED tracker
            /\ completed' = [completed EXCEPT !.input = @ + p, !.output = @ + c,
                                              !.skipped = @ + 1]
       ELSE /\ SetThread(t, [tracker[t] EXCEPT !.pc = "record_lock",
                                               !.prompt_tokens = p,
                                               !.completion_tokens = c])
            /\ UNCHANGED completed
    /\ UNCHANGED << lock, session_input, session_output, call_count >>
    /\ UNCHANGED << pipelineVars, jobsVars, questionVars, syllabusVars, imagingVars >>

\* with _lock: (entering, in record)
RecordAcquire(t) ==
    /\ tracker[t].pc = "record_lock"
    /\ LockIsFree
    /\ lock' = t
    /\ SetThread(t, [tracker[t] EXCEPT !.pc = "load_input"])
    /\ UNCHANGED << session_input, session_output, call_count, completed >>
    /\ UNCHANGED << pipelineVars, jobsVars, questionVars, syllabusVars, imagingVars >>

\* _session_input += prompt_tokens
LoadInput(t) ==
    /\ tracker[t].pc = "load_input"
    /\ SetThread(t, [tracker[t] EXCEPT !.pc = "store_input",
                                       !.tmp = session_input + tracker[t].prompt_tokens])
    /\ UNCHANGED << lock, session_input, session_output, call_count, completed >>
    /\ UNCHANGED << pipelineVars, jobsVars, questionVars, syllabusVars, imagingVars >>

StoreInput(t) ==
    /\ tracker[t].pc = "store_input"
    /\ session_input' = tracker[t].tmp
    /\ SetThread(t, [tracker[t] EXCEPT !.pc = "load_output", !.tmp = 0])
    /\ UNCHANGED << lock, session_output, call_count, completed >>
    /\ UNCHANGED << pipelineVars, jobsVars, questionVars, syllabusVars, imagingVars >>

\* _session_output += completion_tokens
LoadOutput(t) ==
    /\ tracker[t].pc = "load_output"
    /\ SetThread(t, [tracker[t] EXCEPT !.pc = "store_output",
                                       !.tmp = session_output + tracker[t].completion_tokens])
    /\ UNCHANGED << lock, session_input, session_output, call_count, completed >>
    /\ UNCHANGED << pipelineVars, jobsVars, questionVars, syllabusVars, imagingVars >>

StoreOutput(t) ==
    /\ tracker[t].pc = "store_output"
    /\ session_output' = tracker[t].tmp
    /\ SetThread(t, [tracker[t] EXCEPT !.pc = "load_count", !.tmp = 0])
    /\ UNCHANGED << lock, session_input, call_count, completed >>
    /\ UNCHANGED << pipelineVars, jobsVars, questionVars, syllabusVars, imagingVars >>

\* _call_count += 1
LoadCount(t) ==
    /\ tracker[t].pc = "load_count"
    /\ SetThread(t, [tracker[t] EXCEPT !.pc = "store_count", !.tmp = call_count + 1])
    /\ UNCHANGED << lock, session_input, session_output, call_count, completed >>
    /\ UNCHANGED << pipelineVars, jobsVars, questionVars, syllabusVars, imagingVars >>

\* ... and si, so, cc = ...; the with-block ends and releases the lock.
StoreCount(t) ==
    /\ tracker[t].pc = "store_count"
    /\ call_count' = tracker[t].tmp
    /\ lock' = IF lock = t THEN 0 ELSE lock
    /\ SetThread(t, [tracker[t] EXCEPT !.pc = "print", !.tmp = 0])
    /\ UNCHANGED << session_input, session_output, completed >>
    /\ UNCHANGED << pipelineVars, jobsVars, questionVars, syllabusVars, imagingVars >>

\* print(...) and return: the call is completed.
RecordReturn(t) ==
    /\ tracker[t].pc = "print"
    /\ completed' = [completed EXCEPT !.input = @ + tracker[t].prompt_tokens,
                                      !.output = @ + tracker[t].completion_tokens,
                                      !.counted = @ + 1]
    /\ SetThread(t, [tracker[t] EXCEPT !.pc = "idle", !.prompt_tokens = 0,
                                       !.completion_tokens = 0])
    /\ UNCHANGED << lock, session_input, session_output, call_count >>
    /\ UNCHANGED << pipelineVars, jobsVars, questionVars, syllabusVars, imagingVars >>

\* get_totals()
GetTotalsCall(t) ==
    /\ MayCall(t)
    /\ SetThread(t, [tracker[t] EXCEPT !.pc = "totals_lock"])
    /\ UNCHANGED << lock, session_input, session_output, call_count, completed >>
    /\ UNCHANGED << pipelineVars, jobsVars, questionVars, syllabusVars, imagingVars >>

\* with _lock: (entering, in get_totals)
GetTotalsAcquire(t) ==
    /\ tracker[t].pc = "totals_lock"
    /\ LockIsFree
    /\ lock' = t
    /\ SetThread(t, [tracker[t] EXCEPT !.pc = "read_input"])
    /\ UNCHANGED << session_input, session_output, call_count, completed >>
    /\ UNCHANGED << pipelineVars, jobsVars, questionVars, syllabusVars, imagingVars >>

\* "input_tokens": _session_input, "output_tokens": _session_output
ReadInputOutput(t) ==
    /\ tracker[t].pc = "read_input"
    /\ SetThread(t, [tracker[t] EXCEPT !.pc = "read_total",
                        !.totals = << [input_tokens |-> session_input,
                                       output_tokens |-> session_output,
                                       total_tokens |-> 0, call_count |-> 0] >>])
    /\ UNCHANGED << lock, session_input, session_output, call_count, completed >>
    /\ UNCHANGED << pipelineVars, jobsVars, questionVars, syllabusVars, imagingVars >>

\* "total_tokens": _session_input + _session_output, "call_count": _call_count;
\* the dict is built, the with-block ends and releases the lock.
ReadTotalCount(t) ==
    /\ tracker[t].pc = "read_total"
    /\ SetThread(t, [tracker[t] EXCEPT !.pc = "totals_return",
                        !.totals = << [tracker[t].totals[1] EXCEPT
                                          !.total_tokens = session_input + session_output,
                                          !.call_count = call_count] >>])
    /\ lock' = IF lock = t THEN 0 ELSE lock
    /\ UNCHANGED << session_input, session_output, call_count, completed >>
    /\ UNCHANGED << pipelineVars, jobsVars, questionVars, syllabusVars, imagingVars >>

\* return {...}: the caller has the snapshot.
GetTotalsReturn(t) ==
    /\ tracker[t].pc = "totals_return"
    /\ SetThread(t, [tracker[t] EXCEPT !.pc = "idle", !.totals = << >>])
    /\ completed' = [completed EXCEPT !.totals = @ + 1]
    /\ UNCHANGED << lock, session_input, session_output, call_count >>
    /\ UNCHANGED << pipelineVars, jobsVars, questionVars, syllabusVars, imagingVars >>

NextTracker ==
    \E t \in Threads :
        \/ \E p \in TokenCounts, c \in TokenCounts : RecordCall(t, p, c)
        \/ RecordAcquire(t)
        \/ LoadInput(t)
        \/ StoreInput(t)
        \/ LoadOutput(t)
        \/ StoreOutput(t)
        \/ LoadCount(t)
        \/ StoreCount(t)
        \/ RecordReturn(t)
        \/ GetTotalsCall(t)
        \/ GetTotalsAcquire(t)
        \/ ReadInputOutput(t)
        \/ ReadTotalCount(t)
        \/ GetTotalsReturn(t)

SpecTracker == Init /\ [][NextTracker]_vars

\* No call is in progress in any thread.
AllCallsCompleted == \A t \in Threads : tracker[t].pc = "idle"

\* C23: once the concurrent calls have completed, whatever their
\* interleaving, the session input and output totals are the sums of the
\* prompt and completion tokens of the completed record() calls and
\* call_count is the number of those calls that had a non-zero token count
\* (so a record(0, 0) call added nothing anywhere); and every snapshot
\* returned by get_totals() has total_tokens = input_tokens + output_tokens.
C23_TokenTotalsAreExact ==
    /\ AllCallsCompleted =>
          /\ session_input = completed.input
          /\ session_output = completed.output
          /\ call_count = completed.counted
    /\ \A t \in Threads :
          tracker[t].pc = "totals_return" =>
              tracker[t].totals[1].total_tokens =
                  tracker[t].totals[1].input_tokens + tracker[t].totals[1].output_tokens

\* Two record() calls with tokens and one record(0, 0) call have completed.
C23_Witness ==
    /\ AllCallsCompleted
    /\ completed.counted = 2
    /\ completed.skipped = 1
    /\ session_input + session_output >= 3

----------------------------------------------------------------------------
\* syllabus_service.py: SyllabusGenerator.generate_syllabus, the loop over
\* attempts with the generator chain (layer 1) and the reviewer chain (layer 2).

MaxAttempts == 3

\* generator_chain.invoke: a parsed syllabus, an OutputParserException, or
\* any other exception (the backend is unreachable, ...).
GeneratorOutcomes == {"syllabus", "OutputParserException", "Exception"}

\* reviewer_chain.invoke: a SyllabusReview with approved true or false, or
\* an exception.
ReviewerOutcomes == {"approved", "rejected", "Exception"}

\* generate_syllabus(..., max_attempts=m): up to the for statement.
GenerateSyllabusCall(m) ==
    /\ syllabus_pc = "idle"
    /\ max_attempts' = m
    /\ attempt_history' = << >>
    /\ IF m >= 1
       THEN attempt' = 1 /\ syllabus_pc' = "generate"
       ELSE attempt' = 0 /\ syllabus_pc' = "after_loop"
    /\ UNCHANGED << syllabus, invoked, returned >>
    /\ UNCHANGED << pipelineVars, jobsVars, questionVars, trackerVars, imagingVars >>

\* attempt < max_attempts
MoreAttempts_Never == FALSE

MoreAttempts == attempt < max_attempts

\* continue
Continue ==
    /\ attempt' = attempt + 1
    /\ syllabus_pc' = "generate"

Raise_(kind) ==
    /\ syllabus_pc' = "raised"
    /\ returned' = [kind |-> kind, syllabus |-> None, review |-> "none", history |-> << >>]

\* return syllabus, attempt_history
Return_(review, history) ==
    /\ syllabus_pc' = "returned"
    /\ returned' = [kind |-> "returned", syllabus |-> syllabus, review |-> review,
                    history |-> history]

\* Layer 1: try: syllabus = generator_chain.invoke(...) except OutputParserException
InvokeGenerator(o) ==
    /\ syllabus_pc = "generate"
    /\ invoked' = [invoked EXCEPT !.generator = @ + 1]
    /\ CASE o = "syllabus" ->
              /\ syllabus' = Some(attempt)
              /\ syllabus_pc' = "review"
              /\ UNCHANGED << attempt, returned >>
         [] o = "OutputParserException" ->
              /\ UNCHANGED syllabus
              /\ IF MoreAttempts
                 THEN Continue /\ UNCHANGED returned
                 ELSE Raise_("Failed to generate valid syllabus") /\ UNCHANGED attempt
         [] o = "Exception" ->
              /\ Raise_("Exception")
              /\ UNCHANGED << syllabus, attempt >>
    /\ UNCHANGED << max_attempts, attempt_history >>
    /\ UNCHANGED << pipelineVars, jobsVars, questionVars, trackerVars, imagingVars >>

\* attempt_info = {"attempt": attempt, "syllabus": syllabus, "review": review}
AttemptInfo(review) == [attempt |-> attempt, syllabus |-> syllabus, review |-> review]

\* if review.approved:
ReviewApproved_Never(o) == FALSE

ReviewApproved(o) == o = "approved"

\* Layer 2: try: review = reviewer_chain.invoke(...) except Exception; then
\* the history entry and the test of review.approved.
InvokeReviewer(o) ==
    /\ syllabus_pc = "review"
    /\ invoked' = [invoked EXCEPT !.reviewer = @ + 1,
                                  !.reviewed = IF o = "Exception" THEN @ ELSE @ + 1]
    /\ CASE o = "Exception" ->
              /\ UNCHANGED attempt_history
              /\ IF MoreAttempts
                 THEN Continue /\ UNCHANGED returned
                 ELSE Return_("Exception", attempt_history) /\ UNCHANGED attempt
         [] o # "Exception" /\ ReviewApproved(o) ->
              /\ attempt_history' = Append(attempt_history, AttemptInfo(o))
              /\ Return_(o, attempt_history')
              /\ UNCHANGED attempt
         [] o # "Exception" /\ ~ReviewApproved(o) ->
              /\ attempt_history' = Append(attempt_history, AttemptInfo(o))
              /\ UNCHANGED returned
              /\ IF MoreAttempts
                 THEN Continue
                 ELSE syllabus_pc' = "after_loop" /\ UNCHANGED attempt
    /\ UNCHANGED << max_attempts, syllabus >>
    /\ UNCHANGED << pipelineVars, jobsVars, questionVars, trackerVars, imagingVars >>

\* After the loop: return syllabus, attempt_history (the name syllabus is
\* unbound when the loop body never ran).
ReturnLast ==
    /\ syllabus_pc = "after_loop"
    /\ IF syllabus = None
       THEN Raise_("UnboundLocalError")
       ELSE Return_(attempt_history[Len(attempt_history)].review, attempt_history)
    /\ UNCHANGED << max_attempts, attempt, syllabus, attempt_history, invoked >>
    /\ UNCHANGED << pipelineVars, jobsVars, questionVars, trackerVars, imagingVars >>

NextSyllabus ==
    \/ \E m \in 0..MaxAttempts : GenerateSyllabusCall(m)
    \/ \E o \in GeneratorOutcomes : InvokeGenerator(o)
    \/ \E o \in ReviewerOutcomes : InvokeReviewer(o)
    \/ ReturnLast

SpecSyllabus == Init /\ [][NextSyllabus]_vars

SpecSyllabusLive == Init /\ [][NextSyllabus]_vars /\ WF_vars(NextSyllabus)

\* generate_syllabus was called with max_attempts >= 1.
SyllabusCalled == syllabus_pc # "idle" /\ max_attempts >= 1

SyllabusEnded == syllabus_pc \in {"returned", "raised"}

\* What C25 says of every state of a call.
AttemptsWithinLimit ==
    SyllabusCalled =>
        /\ invoked.generator <= max_attempts
        /\ invoked.reviewer <= max_attempts
        /\ Len(attempt_history) = invoked.reviewed
        /\ \A k \in 1..Len(attempt_history) :
              /\ attempt_history[k].syllabus = Some(attempt_history[k].attempt)
              /\ k > 1 => attempt_history[k - 1].attempt < attempt_history[k].attempt
              /\ attempt_history[k].review = "approved" =>
                    /\ k = Len(attempt_history)
                    /\ syllabus_pc = "returned"
                    /\ returned.history = attempt_history

\* C25: a call with max_attempts = M >= 1 invokes the generator at most M
\* times and the reviewer at most M times, makes no further attempt after
\* one whose review is approved, holds in attempt_history one entry per
\* attempt that was generated and whose review came back, in attempt order,
\* and always ends by returning or raising.
C25_AttemptsBoundedAndTerminates ==
    /\ []AttemptsWithinLimit
    /\ SyllabusCalled ~> SyllabusEnded

\* A call with max_attempts = 3 used all three attempts: the generator ran
\* three times, one review failed and two came back, and the call returned.
C25_Witness ==
    /\ syllabus_pc = "returned"
    /\ max_attempts = 3
    /\ invoked.generator = 3
    /\ invoked.reviewer = 3
    /\ Len(attempt_history) = 2

----------------------------------------------------------------------------
\* C26: when the job is Completed, the script field of its record holds the
\* script that run generated and wrote with its {script} update; the
\* caller's final save has not replaced it with an older or null value.
C26_CompletedKeepsScript ==
    rec.status = "completed" => rec.script_data = script_data

\* C27: every path returned by create_video_clip, hence every clip of the
\* merge list, refers to an existing clip file, and the path returned by
\* merge_scenes, hence by run, refers to an existing final video file.
C27_ReturnedPathsExist ==
    /\ \A n \in 1..Len(video_clips) : Exists("clip", video_clips[n])
    /\ result.kind = "returned" => Exists("final", 0)

\* The loop is between two iterations, or has just ended: scenes 1..i-1
\* have been processed.
AtIterationBoundary == pc \in {"scene", "after_loop"}

\* The positions of scene k in the clip list and in the failure records.
ClipsOf(k) == {n \in 1..Len(video_clips) : video_clips[n] = k}
FailureRecordsOf(k) == {n \in 1..Len(failed_scenes) : failed_scenes[n][1] = k}

\* C28: at every iteration boundary of the per-scene loop, each scene
\* processed so far has either its clip in the clip list, once, or exactly
\* one failure record, never both, and no scene still to come has either;
\* after the loop the number of clips plus the number of failure records is
\* the number of scenes.
C28_ClipOrFailurePerScene ==
    AtIterationBoundary =>
        /\ \A k \in SceneNumbers :
              Cardinality(ClipsOf(k)) + Cardinality(FailureRecordsOf(k))
                  = IF k < i THEN 1 ELSE 0
        /\ pc = "after_loop" => Len(video_clips) + Len(failed_scenes) = NumScenes

\* After a loop over two scenes, one scene has a clip and the other has a
\* failure record.
C28_Witness ==
    /\ pc = "after_loop"
    /\ NumScenes = 2
    /\ Len(video_clips) = 1
    /\ Len(failed_scenes) = 1

----------------------------------------------------------------------------
\* ai_client.py: _get_sd_pipeline called by generate_image from pipelines
\* that run in different threads of one process (the view starts one thread
\* per job). The function takes no lock.

SetImaging(t, fields) == imaging' = [imaging EXCEPT ![t] = fields]

ImagingOther == << pipelineVars, jobsVars, questionVars, trackerVars, syllabusVars >>

\* _sd_generate: pipe = _get_sd_pipeline(), for one more image of a job.
GetPipelineCall(t) ==
    /\ imaging[t].pc = "idle"
    /\ imaging[t].calls < MaxCalls
    /\ SetImaging(t, [imaging[t] EXCEPT !.pc = "check", !.calls = @ + 1, !.received = 0])
    /\ UNCHANGED << sd_pipeline, loaded, ImagingOther >>

\* if _sd_pipeline is not None: return _sd_pipeline
CheckLoaded(t) ==
    /\ imaging[t].pc = "check"
    /\ IF sd_pipeline # 0
       THEN SetImaging(t, [imaging[t] EXCEPT !.pc = "idle", !.received = sd_pipeline])
       ELSE SetImaging(t, [imaging[t] EXCEPT !.pc = "load"])
    /\ UNCHANGED << sd_pipeline, loaded, ImagingOther >>

\* pipe = StableDiffusionPipeline.from_pretrained(...).to(device) and its
\* configuration: a new pipeline object, or an exception that leaves
\* _get_sd_pipeline.
LoadPipeline(t) ==
    /\ imaging[t].pc = "load"
    /\ \E o \in {"loaded", "raise"} :
          IF o = "loaded"
          THEN /\ loaded' = loaded + 1
               /\ SetImaging(t, [imaging[t] EXCEPT !.pc = "store", !.pipe = loaded + 1])
          ELSE /\ UNCHANGED loaded
               /\ SetImaging(t, [imaging[t] EXCEPT !.pc = "idle"])
    /\ UNCHANGED << sd_pipeline, ImagingOther >>

\* _sd_pipeline = pipe
StorePipeline(t) ==
    /\ imaging[t].pc = "store"
    /\ sd_pipeline' = imaging[t].pipe
    /\ SetImaging(t, [imaging[t] EXCEPT !.pc = "return", !.pipe = 0])
    /\ UNCHANGED << loaded, ImagingOther >>

\* return _sd_pipeline
ReturnPipeline(t) ==
    /\ imaging[t].pc = "return"
    /\ SetImaging(t, [imaging[t] EXCEPT !.pc = "idle", !.received = sd_pipeline])
    /\ UNCHANGED << sd_pipeline, loaded, ImagingOther >>

NextImaging ==
    \E t \in Threads :
        \/ GetPipelineCall(t)
        \/ CheckLoaded(t)
        \/ LoadPipeline(t)
        \/ StorePipeline(t)
        \/ ReturnPipeline(t)

SpecImaging == Init /\ [][NextImaging]_vars

\* C29: whatever the interleaving of the threads' calls, the pipeline is
\* initialised at most once in the process and every caller receives the
\* same pipeline object.
C29_PipelineLoadedOnce ==
    /\ loaded <= 1
    /\ \A t1 \in Threads, t2 \in Threads :
          (imaging[t1].received # 0 /\ imaging[t2].received # 0) =>
              imaging[t1].received = imaging[t2].received

====
